---------------------------- MODULE Spec2Model ----------------------------
(***************************************************************************)
(* A model of the pile_design repository: the linked soil profile of       *)
(* soil.py and the helical-pier solvers of PileDesign/HelicalPiers.py      *)
(* (whose hazard scan and bearing-depth search are repeated verbatim in    *)
(* the older draft helical_piers.py), and the pin-pile embedment solver of  *)
(* pin_pile.py.                                                            *)
(*                                                                         *)
(* Python objects live in a heap: `heap` is the sequence of Soil objects   *)
(* in order of construction, and an object reference is an index into it.  *)
(* Depths are counted in half feet, the step of the solver's depth grid,   *)
(* so that every grid depth is an integer.  A Python call is one action;   *)
(* `outcome` holds what the call raised, returned and printed.             *)
(***************************************************************************)
EXTENDS Integers, Sequences, FiniteSets, TLC

\* ---------------------------------------------------------------- bounds
MaxLayers == 3
MaxDepth == 3
\* the trial depths the embedment search may reach, in hundredths of a foot
MaxMinD == 100

\* ------------------------------------------------------- Python's values
\* None, for a reference (no object has index 0) and for a number that is
\* unset (every number the model stores is >= 0).
None == 0 - 1
NoUscs == "None"
Organic == {"OL", "OH"}
Gammas == {110}
Phis == {30}
Cohesions == {0, 1000}
HeadDepths == {0}
InsertDepths == 0 .. MaxDepth
InsertFlags == {<<FALSE, NoUscs>>, <<TRUE, NoUscs>>, <<FALSE, "OL">>}
HeadFlags == InsertFlags \cup {<<FALSE, "OH">>}
RequiredCapacities == {500, 50000}
PlateAreas == {None, 0, 1}
SafetyFactors == {2}
\* the pin-pile inputs: friction angles of the slide mass, the cohesion and
\* top depth (half feet) of the intact soil, pile width (half feet), spacing
SlidePhis == {30, 40}
IntactCohesions == {0}
IntactDepths == {1, 2}
PinWidths == {1}
PinSpacings == {3}
Max(S) == CHOOSE x \in S : \A y \in S : y <= x

\* heap:    the Soil objects, in order of construction
\* spi:     the SoilPierInteraction object
\* outcome: what the last call raised, returned and printed
\* given:   per Soil object, the hazard flag and USCS code its creator was given
\* last:    the last call, its arguments and the state it was made in
\* pile:    the PinPile object
\* frame:   the activation of PinPile.calculate_min_depth: where it stands,
\*          its local names, and a record of what it has done so far
VARIABLES heap, spi, outcome, given, last, pile, frame
vars == <<heap, spi, outcome, given, last, pile, frame>>

\* ------------------------------------------------------------- soil.py
\* Soil.__init__: the attributes of a freshly constructed layer.
SoilInit(unit_weight, friction_angle, cohesion, layer_depth, hazard, uscs) ==
    [ gamma            |-> unit_weight,
      phi              |-> friction_angle,
      cohesion         |-> cohesion,
      layer_depth      |-> layer_depth,
      hazard           |-> IF uscs = "OL" \/ uscs = "OH" THEN TRUE ELSE hazard,
      layer_thickness  |-> None,
      underlying_layer |-> None,
      uscs             |-> uscs,
      Nq               |-> None ]

\* A guard that also lets a layer in at the depth of the layer above it.
InsertGuardOrEqual(layer_depth, self_depth) == layer_depth >= self_depth

\* The comparison that guards Soil.insert.
InsertGuard(layer_depth, self_depth) == layer_depth > self_depth

\* A thickness that forgets the top depth of the layer it belongs to.
InsertThicknessFromSurface(layer_depth, self_depth) == layer_depth

\* The thickness Soil.insert gives the layer it appends under.
InsertThickness(layer_depth, self_depth) == layer_depth - self_depth

\* The layer Soil.insert constructs: hazard and uscs are parameters of insert
\* but are not handed to the constructor, whose defaults apply.
InsertedLayer(unit_weight, friction_angle, cohesion, layer_depth, hazard, uscs) ==
    SoilInit(unit_weight, friction_angle, cohesion, layer_depth, FALSE, NoUscs)

\* Soil.insert on the object `self`: the heap after the call.  It returns None
\* on every path and raises nothing.
RECURSIVE insert(_, _, _, _, _, _, _, _)
insert(h, self, unit_weight, friction_angle, cohesion, layer_depth, hazard, uscs) ==
    IF InsertGuard(layer_depth, h[self].layer_depth)
    THEN IF h[self].underlying_layer = None
         THEN [ Append(h, InsertedLayer(unit_weight, friction_angle, cohesion,
                                        layer_depth, hazard, uscs))
                  EXCEPT ![self].underlying_layer = Len(h) + 1,
                         ![self].layer_thickness =
                             InsertThickness(layer_depth, h[self].layer_depth) ]
         ELSE \* the recursive call leaves hazard and uscs at their defaults
              insert(h, h[self].underlying_layer, unit_weight, friction_angle,
                     cohesion, layer_depth, FALSE, NoUscs)
    ELSE h

\* ------------------------------------------------------- call outcomes
Returned(v) == [raised |-> "None", ret |-> v, printed |-> {}]
Raised(e) == [raised |-> e, ret |-> None, printed |-> {}]
Printed(msg, v) == [raised |-> "None", ret |-> v, printed |-> {msg}]

\* ------------------------------------------- PileDesign/HelicalPiers.py
\* The names bound at module level: the imports and the two classes.
ModuleGlobals == {"np", "math", "Soil", "HelicalPier", "SoilPierInteraction"}

\* Whether a bare name resolves inside a function with the given local names.
NameBound(name, locals) == name \in (locals \cup ModuleGlobals)

\* The attributes of a Soil object and of a SoilPierInteraction object.
SoilAttrs == DOMAIN SoilInit(0, 0, 0, 0, FALSE, NoUscs)
InteractionAttrs ==
    {"required_capacity", "allowable_bearing_depth", "allowable_bearing_strata"}

\* SoilPierInteraction.__init__
InteractionInit(required_capacity) ==
    [ required_capacity        |-> required_capacity,
      allowable_bearing_depth  |-> None,
      allowable_bearing_strata |-> None ]

\* A Python list compared with a bool (hazards == True): never equal.
ListEqBool(list, b) == FALSE

\* np.all of a single bool.
NpAll(b) == b

\* Lines 201-209 of _check_hazard: the index computed from the list hazards.
FirstSuitableLayer(hazards) ==
    IF NpAll(ListEqBool(hazards, TRUE))
    THEN Printed("HAZARD WARNING", 0 - 1)
    ELSE IF NpAll(ListEqBool(hazards, FALSE))
    THEN Returned(0)
    ELSE IF \E i \in 1 .. Len(hazards) : hazards[i]
    THEN \* len(hazards) - 1 - hazards[::-1].index(True): the last True
         Returned((CHOOSE i \in 1 .. Len(hazards) :
                      /\ hazards[i]
                      /\ \A j \in (i + 1) .. Len(hazards) : ~hazards[j]) - 1)
    ELSE Raised("ValueError")

\* The local names of _check_hazard: its parameters and the names it assigns.
CheckHazardLocals == {"self", "soil_profile", "hazards", "first_suitable_layer"}

\* SoilPierInteraction._check_hazard(soil_profile).  The loop reads the name
\* soil, which is neither a parameter nor assigned nor a global, so the call
\* raises before it looks at a layer.  The rest is the body as it would run
\* with soil naming the head of the profile: the loop body reads soil.harzard,
\* which no Soil has, and never moves soil on (a list that grows for ever).
check_hazard(h, soil_profile) ==
    IF ~NameBound("soil", CheckHazardLocals)
    THEN Raised("NameError")
    ELSE LET soil == soil_profile
         IN  IF h[soil].underlying_layer # None
             THEN IF "harzard" \notin SoilAttrs
                  THEN Raised("AttributeError")
                  ELSE Raised("MemoryError")
             ELSE FirstSuitableLayer(<< >>)

\* The layers whose hazard attribute _check_hazard reads, in the order it reads
\* them: none, as the call raises on the loop's first test.  With soil bound
\* to the head the loop would read the head alone, over and over, and the
\* deepest layer (the one without an underlying layer) never.
check_hazard_visits(h, soil_profile) ==
    IF ~NameBound("soil", CheckHazardLocals)
    THEN << >>
    ELSE IF h[soil_profile].underlying_layer # None /\ "harzard" \in SoilAttrs
    THEN << soil_profile, soil_profile >>
    ELSE << >>

\* Nq = 0.3359 * exp(0.1247 * phi), in hundredths, rounded to nearest.
NqOf(phi) ==
    CASE phi = 0 -> 34
      [] phi = 30 -> 1415

\* Whether total_capacities exceeds / falls below the required capacity at the
\* grid depth of k half feet:
\*   (plate_area*cohesion*9 + plate_area*Nq*gamma*(k/2)) / safety_factor
\* against required_capacity, both sides multiplied by 200 * safety_factor.
ScaledCapacity(plate_area, nq, layer, k) ==
    200 * plate_area * layer.cohesion * 9 + plate_area * nq * layer.gamma * k
ScaledRequired(required_capacity, safety_factor) ==
    200 * required_capacity * safety_factor
Exceeds(plate_area, nq, layer, k, required_capacity, safety_factor) ==
    ScaledCapacity(plate_area, nq, layer, k)
        > ScaledRequired(required_capacity, safety_factor)
Below(plate_area, nq, layer, k, required_capacity, safety_factor) ==
    ScaledCapacity(plate_area, nq, layer, k)
        < ScaledRequired(required_capacity, safety_factor)

\* np.arange(layer_depth, layer_thickness + layer_depth, 0.5), in half feet.
DepthGrid(layer) ==
    [ i \in 1 .. layer.layer_thickness |-> layer.layer_depth + i - 1 ]

\* The local names of _calculate_bearing_capacity.
CalculateLocals ==
    {"self", "pier", "soil", "safety_factor", "depths", "cohesive",
     "cohesionless", "total_capacities", "possible_bearing_depths", "depth"}

\* What a call leaves behind: the heap, the interaction object, the outcome.
Result(h, s, o) == [heap |-> h, spi |-> s, outcome |-> o]

\* SoilPierInteraction._calculate_bearing_capacity(pier, soil, safety_factor).
\* Its first statement reads self.phi, which __init__ never sets.
calculate_bearing_capacity(h, s, plate_area, soil, safety_factor) ==
    IF "phi" \notin InteractionAttrs
    THEN Result(h, s, Raised("AttributeError"))
    ELSE
    LET h1     == [h EXCEPT ![soil].Nq = NqOf(s.phi)]
        layer  == h1[soil]
        depths == DepthGrid(layer)
        grid   == DOMAIN depths
        over(i)  == Exceeds(plate_area, layer.Nq, layer, depths[i],
                            s.required_capacity, safety_factor)
        under(i) == Below(plate_area, layer.Nq, layer, depths[i],
                          s.required_capacity, safety_factor)
    IN  IF layer.layer_thickness = None \/ plate_area = None
        THEN Result(h1, s, Raised("TypeError"))
        ELSE IF \A i \in grid : over(i)
        THEN Result(h1,
                    [s EXCEPT !.allowable_bearing_depth = depths[1],
                              !.allowable_bearing_strata = soil],
                    Returned(None))
        ELSE IF \A i \in grid : under(i)
        THEN IF layer.underlying_layer # None
             THEN \* _calculate_bearing_capacity(soil.underlying_layer,
                  \* safety_factor): a bare name, and two arguments for three
                  IF ~NameBound("_calculate_bearing_capacity", CalculateLocals)
                  THEN Result(h1, s, Raised("NameError"))
                  ELSE Result(h1, s, Raised("TypeError"))
             ELSE Result(h1, s, Printed("WARNING", None))
        ELSE \* total_capacities[depth:] with depth an index array
             Result(h1, s, Raised("TypeError"))

\* The local names of soil_axial_capacity.
AxialLocals ==
    {"self", "pier", "soil_profile", "safety_factor", "soil_layer",
     "layer_number", "hazards"}

\* SoilPierInteraction.soil_axial_capacity(pier, soil_profile, safety_factor).
\* The statement `if hazards >= 0:` has no indented body: if_encloses says
\* whether the loop and the call after it are read as that body.  The call
\* _check_hazard raises, so nothing after it runs; what follows it reads the
\* unbound names soil and _calculate_bearing_capacity.
soil_axial_capacity(h, s, plate_area, soil_profile, safety_factor, if_encloses) ==
    LET hazards == check_hazard(h, soil_profile)
    IN  IF hazards.raised # "None"
        THEN Result(h, s, hazards)
        ELSE IF if_encloses /\ ~(hazards.ret >= 0)
        THEN Result(h, s, [hazards EXCEPT !.ret = None])
        ELSE IF 0 < hazards.ret /\ ~NameBound("soil", AxialLocals)
        THEN Result(h, s, [hazards EXCEPT !.raised = "NameError", !.ret = None])
        ELSE IF ~NameBound("_calculate_bearing_capacity", AxialLocals)
        THEN Result(h, s, [hazards EXCEPT !.raised = "NameError", !.ret = None])
        ELSE Result(h, s, [hazards EXCEPT !.raised = "TypeError", !.ret = None])

\* ------------------------------------------------------------ pin_pile.py
\* Floating-point quantities are carried as integers in fixed units, named
\* where they are computed.  Products that would not fit in 32 bits are
\* formed and divided in one step by MulDiv.
Abs(n) == IF n < 0 THEN 0 - n ELSE n
Sgn(n) == IF n > 0 THEN 1 ELSE IF n < 0 THEN 0 - 1 ELSE 0

\* Quotient and remainder of x * y by z, for x, y >= 0 and z > 0, by the
\* binary digits of y.
RECURSIVE MulDivQR(_, _, _)
MulDivQR(x, y, z) ==
    IF y = 0
    THEN << 0, 0 >>
    ELSE LET h == MulDivQR(x, y \div 2, z)
             t == 2 * h[2] + x * (y % 2)
         IN  << 2 * h[1] + (t \div z), t % z >>

\* x * y / z, rounded towards zero.
MulDiv(x, y, z) ==
    Sgn(x) * Sgn(y) * Sgn(z) * MulDivQR(Abs(x), Abs(y), Abs(z))[1]

\* np.sqrt, rounded down to an integer.
RECURSIVE IsqrtBetween(_, _, _)
IsqrtBetween(n, lo, hi) ==
    IF lo >= hi
    THEN lo
    ELSE LET mid == (lo + hi + 1) \div 2
         IN  IF mid * mid <= n
             THEN IsqrtBetween(n, mid, hi)
             ELSE IsqrtBetween(n, lo, mid - 1)
Isqrt(n) == IsqrtBetween(n, 0, 46340)

\* np.log of x (in hundredths, x >= 1), in ten-thousandths: x is brought
\* into [1, 2) by halving or doubling, and the logarithm of what is left is
\* the series 2 * (y + y^3/3 + y^5/5 + y^7/7) with y = (m - 1) / (m + 1).
RECURSIVE LnFrom(_, _)
LnFrom(m, k) ==
    IF m >= 20000 THEN LnFrom(m \div 2, k + 1)
    ELSE IF m < 10000 THEN LnFrom(2 * m, k - 1)
    ELSE LET y  == MulDiv(m - 10000, 10000, m + 10000)
             y2 == MulDiv(y, y, 10000)
             y3 == MulDiv(y2, y, 10000)
             y5 == MulDiv(y3, y2, 10000)
             y7 == MulDiv(y5, y2, 10000)
         IN  k * 6931 + 2 * (y + (y3 \div 3) + (y5 \div 5) + (y7 \div 7))
Ln(x) == LnFrom(100 * x, 0)

\* The chain of comparisons `phi > 47.5 ... phi > 2.5` of coeff_kq and of
\* coeff_kc: the lower limit of the band it selects.  Here, and in every phi
\* argument below, the angle is in half degrees, so that the limits are
\* integers; a depth in half feet is the same number of feet doubled.
Band(phi) ==
    IF phi > 95 THEN 95
    ELSE IF phi > 85 THEN 85
    ELSE IF phi > 75 THEN 75
    ELSE IF phi > 65 THEN 65
    ELSE IF phi > 55 THEN 55
    ELSE IF phi > 45 THEN 45
    ELSE IF phi > 35 THEN 35
    ELSE IF phi > 25 THEN 25
    ELSE IF phi > 15 THEN 15
    ELSE IF phi > 5 THEN 5
    ELSE 0

\* The polynomial of each band of coeff_kq: the coefficients of x^3, x^2, x
\* and 1, in ten-thousandths.
KqPolynomial(band) ==
    CASE band = 95 -> << 0, 0, 0, 2220000 >>
      [] band = 85 -> << 0, 0 - 298, 33082, 184560 >>
      [] band = 75 -> << 0, 0 - 305, 18933, 116950 >>
      [] band = 65 -> << 0, 0 - 263, 12454, 79970 >>
      [] band = 55 -> << 0, 0 - 215, 8025, 53649 >>
      [] band = 45 -> << 10, 0 - 390, 6159, 37461 >>
      [] band = 35 -> << 5, 0 - 216, 3756, 24859 >>
      [] band = 25 -> << 4, 0 - 174, 2452, 16662 >>
      [] band = 15 -> << 2, 0 - 87, 1264, 10113 >>
      [] band = 5 -> << 0, 0 - 8, 279, 4913 >>
      [] band = 0 -> << 0, 0, 0, 0 >>

\* The polynomial of each polynomial band of coeff_kc, and the factor and
\* constant of each of its logarithmic bands.
KcPolynomial(band) ==
    CASE band = 95 -> << 0, 0, 0, 7590000 >>
      [] band = 85 -> << 0, 0 - 5208, 278150, 161230 >>
      [] band = 75 -> << 0, 0 - 3800, 155690, 170440 >>
      [] band = 65 -> << 114, 0 - 5662, 110830, 113530 >>
      [] band = 55 -> << 140, 0 - 5459, 77909, 86346 >>
      [] band = 0 -> << 19, 0 - 730, 9069, 40468 >>
KcLogarithm(band) ==
    CASE band = 45 -> << 70512, 130730 >>
      [] band = 35 -> << 44885, 102480 >>
      [] band = 25 -> << 30067, 82786 >>
      [] band = 15 -> << 19716, 71678 >>
      [] band = 5 -> << 15053, 57476 >>

\* c[1]*x^3 + c[2]*x^2 + c[3]*x + c[4] for x in hundredths, in ten-thousandths.
Polynomial(c, x) ==
    LET x2 == x * x
        x3 == MulDiv(x2, x, 100)
    IN  MulDiv(x3, c[1], 10000) + MulDiv(x2, c[2], 10000)
          + MulDiv(x, c[3], 100) + c[4]

\* coeff_kq(phi, x) and coeff_kc(phi, x): x in hundredths as the caller holds
\* it; both start with x += 0.1.
coeff_kq(phi, x) == Polynomial(KqPolynomial(Band(phi)), x + 10)
coeff_kc(phi, x) ==
    LET band == Band(phi)
    IN  IF band \in {45, 35, 25, 15, 5}
        THEN MulDiv(KcLogarithm(band)[1], Ln(x + 10), 10000)
               + KcLogarithm(band)[2]
        ELSE Polynomial(KcPolynomial(band), x + 10)

\* math.inf
Inf == 2147483647

\* The names bound at module level in pin_pile.py, and the local names of
\* calculate_min_depth.
PinModuleGlobals == {"np", "math", "Soil", "PinPile", "coeff_kq", "coeff_kc"}
MinDepthLocals ==
    {"self", "slide_mass", "intact_soil", "bearing_layer_depth", "depth", "zB",
     "kq", "kc", "sigma_V", "sigma_L", "z", "resultant", "fz", "final_depth",
     "final_zb", "final_sigma_V", "final_sigma_L", "sum_fz", "min_d", "d1",
     "d_d1", "F1L1", "F2L2"}

\* PinPile.__init__; width in half feet.
PinPileInit(width, spacing) ==
    [ width      |-> width,
      spacing    |-> width * spacing,
      sigma_avg  |-> None,
      sigma_L_ds |-> None,
      sum_T      |-> None,
      z_bar      |-> None,
      pile_depth |-> None,
      depth_SF   |-> None,
      embedment  |-> None,
      moment     |-> None,
      moment_arm |-> None ]

\* np.linspace(0, stop, num=5), in quarters of the unit of stop.
Linspace5(stop) == [ i \in 1 .. 5 |-> stop * (i - 1) ]

\* np.append(0, a[:-1]) and np.sum(a[1:]) for an array of five.
ShiftDown(a) == [ i \in 1 .. 5 |-> IF i = 1 THEN 0 ELSE a[i - 1] ]
SumBelowFirst(a) == a[2] + a[3] + a[4] + a[5]

\* Lines 69-97 of calculate_min_depth: the names it binds before the search.
\*   depth in eighths of a foot, zB in hundredths, kq and kc in
\*   ten-thousandths, sigma_L and final_sigma_L in ten-thousandths of a psf,
\*   sum_T in hundredths of a lb/ft, z_bar in 1/256000 ft, sigma_avg in
\*   hundredths of a psf/ft, sigma_L_ds in hundredths of a psf.
\* coeff_kq adds 0.1 to the array zB in place, so coeff_kc is handed the
\* array already raised (zB_kc); the scalar of the intact-soil calls is not
\* shared.  Those two calls pass final_zb where phi is expected and the
\* friction angle where x is.
Loads(h, width, slide_mass, intact_soil) ==
    LET slide   == h[slide_mass]
        intact  == h[intact_soil]
        depth   == Linspace5(slide.layer_thickness)
        zB      == [ i \in 1 .. 5 |-> (25 * depth[i]) \div width ]
        kq      == [ i \in 1 .. 5 |-> coeff_kq(2 * slide.phi, zB[i]) ]
        zB_kc   == [ i \in 1 .. 5 |-> zB[i] + 10 ]
        kc      == [ i \in 1 .. 5 |-> coeff_kc(2 * slide.phi, zB_kc[i]) ]
        sigma_V == [ i \in 1 .. 5 |-> slide.gamma * depth[i] ]
        sigma_L == [ i \in 1 .. 5 |->
                       kc[i] * slide.cohesion + MulDiv(sigma_V[i], kq[i], 8) ]
        resultant == [ i \in 1 .. 5 |->
                         ((depth[i] + ShiftDown(depth)[i])
                            * (sigma_V[i] + ShiftDown(sigma_V)[i])) \div 2 ]
        fz      == [ i \in 1 .. 5 |->
                       resultant[i] * (depth[i] + ShiftDown(depth)[i]) ]
        final_depth   == intact.layer_depth * width
        final_zb      == intact.layer_depth
        final_sigma_V == intact.gamma * (final_depth - 2 * intact.layer_depth)
                           + slide.gamma * 2 * intact.layer_depth
        final_sigma_L ==
            MulDiv(final_sigma_V, coeff_kq(final_zb, 100 * intact.phi), 4)
              + coeff_kc(final_zb, 100 * intact.phi) * intact.cohesion
        sum_T   == SumBelowFirst(resultant)
        sum_fz  == SumBelowFirst(fz)
    IN  [ bearing_layer_depth |->
              IF intact.underlying_layer # None
              THEN intact.layer_thickness + intact.layer_depth
              ELSE Inf,
          sum_T      |-> MulDiv(sum_T, 100, 64),
          z_bar      |-> MulDiv(sum_fz, 16000, sum_T),
          sigma_avg  |->
              MulDiv(MulDiv(final_sigma_L - sigma_L[5], 4,
                            final_depth - 2 * intact.layer_depth), 1, 100),
          sigma_L_ds |-> sigma_L[5] \div 100,
          calls |->
              << [fn |-> "coeff_kq", layer |-> slide_mass,
                  phi |-> 2 * slide.phi, x |-> zB],
                 [fn |-> "coeff_kc", layer |-> slide_mass,
                  phi |-> 2 * slide.phi, x |-> zB_kc],
                 [fn |-> "coeff_kq", layer |-> intact_soil,
                  phi |-> final_zb, x |-> 100 * intact.phi],
                 [fn |-> "coeff_kc", layer |-> intact_soil,
                  phi |-> final_zb, x |-> 100 * intact.phi] >> ]

\* d1 of lines 100 and 106, in 1/256000 ft, for min_d in hundredths of a foot:
\*   (-q + sqrt(q^2 + 4c)) / 2  with  q = 2 sigma_L / sigma_avg  and
\*   c = (sum_T + (sigma_avg / 2) min_d^2 + sigma_L min_d) / sigma_avg,
\* taken as 2c / (q + sqrt(q^2 + 4c)), the same number, so that the rounding
\* of the integer square root is not magnified by the subtraction.
RootD1(sigma_L, sigma_avg, sum_T, min_d) ==
    LET q == MulDiv(2 * sigma_L, 16000, sigma_avg)
        c == MulDiv(sum_T + MulDiv(sigma_avg, min_d * min_d, 20000)
                          + MulDiv(sigma_L, min_d, 100),
                    256000000, sigma_avg)
    IN  MulDiv(c, 32, q + Isqrt(q * q + 4 * c))

\* pressure * d * arm and (sigma_avg / 2) * d^2 * arm, the two kinds of term
\* of F1L1 and F2L2, in ten-thousandths of a lb.
Block(pressure, d, arm) == MulDiv(MulDiv(d, arm, 256), pressure, 2560000)
Wedge(sigma_avg, d, arm) ==
    MulDiv(MulDiv(MulDiv(d, d, 256), arm, 256000), sigma_avg, 5120000)

\* Lines 102-103 and 109-111; lever is intact_soil.layer_depth - z_bar.
F1L1(sigma_L, sigma_avg, lever, d1) ==
    Block(sigma_L, d1, lever + (d1 \div 2))
      + Wedge(sigma_avg, d1, lever + ((2 * d1) \div 3))
F2L2(sigma_L, sigma_avg, lever, d1, d_d1) ==
    Block(sigma_L + MulDiv(sigma_avg, d1, 256000), d_d1,
          lever + d1 + (d_d1 \div 2))
      + Wedge(sigma_avg, d_d1, lever + d1 + ((2 * d_d1) \div 3))

\* F1L1 and F2L2 at the trial depth min_d, for the pile and intact layer given.
Balance(p, intact, min_d) ==
    LET lever == 128000 * intact.layer_depth - p.z_bar
        d1    == RootD1(p.sigma_L_ds, p.sigma_avg, p.sum_T, min_d)
        d_d1  == 2560 * min_d - d1
    IN  [ F1L1 |-> F1L1(p.sigma_L_ds, p.sigma_avg, lever, d1),
          F2L2 |-> F2L2(p.sigma_L_ds, p.sigma_avg, lever, d1, d_d1) ]

\* The loop test abs(1 - F1L1/F2L2) > 0.01.
OutOfTolerance(f1, f2) == Abs(f2 - f1) > Abs(f2) \div 100

\* Line 121: pile_depth > bearing_layer_depth, for min_d in hundredths of a
\* foot and the bearing depth in half feet.
BelowBearingLayer(min_d, bearing_layer_depth) ==
    bearing_layer_depth # Inf /\ min_d > 50 * bearing_layer_depth

\* No pin pile has been constructed and no embedment solve is under way.
NoPile == [width |-> None]
NoFrame == [pc |-> "idle"]

\* ---------------------------------------------------------------- state
NoCall == [op |-> "none", soil |-> None, layer_depth |-> None,
           plate_area |-> None, safety_factor |-> None,
           pre |-> << >>, prespi |-> InteractionInit(None)]

\* The client constructs the head of the profile, Soil(...), and the
\* interaction object, SoilPierInteraction(required_capacity).
Init ==
    \E g \in Gammas, f \in Phis, c \in Cohesions, d \in HeadDepths,
       fl \in HeadFlags, rc \in RequiredCapacities :
        /\ heap = << SoilInit(g, f, c, d, fl[1], fl[2]) >>
        /\ given = << [hazard |-> fl[1], uscs |-> fl[2]] >>
        /\ spi = InteractionInit(rc)
        /\ outcome = Returned(None)
        /\ last = NoCall
        /\ pile = NoPile
        /\ frame = NoFrame

\* The client calls soil_profile.insert(...) on the head of the profile, while
\* the profile stays within MaxLayers layers.
Insert ==
    /\ \E g \in Gammas, f \in Phis, c \in Cohesions, d \in InsertDepths,
          fl \in InsertFlags :
        /\ heap' = insert(heap, 1, g, f, c, d, fl[1], fl[2])
        /\ Len(heap') <= MaxLayers
        /\ given' = IF Len(heap') > Len(heap)
                    THEN Append(given, [hazard |-> fl[1], uscs |-> fl[2]])
                    ELSE given
        /\ outcome' = Returned(None)
        /\ last' = [NoCall EXCEPT !.op = "insert", !.soil = 1,
                                  !.layer_depth = d, !.pre = heap,
                                  !.prespi = spi]
        /\ UNCHANGED <<spi, pile, frame>>

\* The client calls interaction._check_hazard(soil_profile).
CheckHazard ==
    /\ outcome' = check_hazard(heap, 1)
    /\ last' = [NoCall EXCEPT !.op = "_check_hazard", !.soil = 1,
                              !.pre = heap, !.prespi = spi]
    /\ UNCHANGED <<heap, spi, given, pile, frame>>

\* The client calls interaction._calculate_bearing_capacity(pier, soil, sf).
CalculateBearingCapacity ==
    \E pa \in PlateAreas, soil \in 1 .. Len(heap), sf \in SafetyFactors :
        LET r == calculate_bearing_capacity(heap, spi, pa, soil, sf)
        IN  /\ heap' = r.heap
            /\ spi' = r.spi
            /\ outcome' = r.outcome
            /\ last' = [NoCall EXCEPT !.op = "_calculate_bearing_capacity",
                                      !.soil = soil, !.plate_area = pa,
                                      !.safety_factor = sf, !.pre = heap,
                                      !.prespi = spi]
            /\ UNCHANGED <<given, pile, frame>>

\* The client calls interaction.soil_axial_capacity(pier, soil_profile, sf).
SoilAxialCapacity ==
    \E pa \in PlateAreas, sf \in SafetyFactors, if_encloses \in BOOLEAN :
        LET r == soil_axial_capacity(heap, spi, pa, 1, sf, if_encloses)
        IN  /\ heap' = r.heap
            /\ spi' = r.spi
            /\ outcome' = r.outcome
            /\ last' = [NoCall EXCEPT !.op = "soil_axial_capacity",
                                      !.soil = 1, !.plate_area = pa,
                                      !.safety_factor = sf, !.pre = heap,
                                      !.prespi = spi]
            /\ UNCHANGED <<given, pile, frame>>

Next ==
    \/ Insert
    \/ CheckHazard
    \/ CalculateBearingCapacity
    \/ SoilAxialCapacity

Spec == Init /\ [][Next]_vars

\* ------------------------------------------------ the embedment solver
\* The client builds a profile of a slide mass over intact soil, with or
\* without a layer under the intact soil, and constructs PinPile(width, spacing).
PinInit ==
    \E g \in Gammas, f \in SlidePhis, c \in Cohesions, fi \in Phis,
       ci \in IntactCohesions, d \in IntactDepths, w \in PinWidths,
       sp \in PinSpacings,
       u \in {None} \cup {x \in InsertDepths : x > Max(IntactDepths)} :
        LET slide   == << SoilInit(g, f, c, 0, FALSE, NoUscs) >>
            two     == insert(slide, 1, g, fi, ci, d, FALSE, NoUscs)
            profile == IF u = None
                       THEN two
                       ELSE insert(two, 1, g, fi, ci, u, FALSE, NoUscs)
        IN  /\ heap = profile
            /\ given = [ i \in 1 .. Len(profile) |->
                           [hazard |-> FALSE, uscs |-> NoUscs] ]
            /\ spi = InteractionInit(None)
            /\ outcome = Returned(None)
            /\ last = NoCall
            /\ pile = PinPileInit(w, sp)
            /\ frame = NoFrame

\* pile.calculate_min_depth(slide_mass, intact_soil) is entered with the
\* arguments design_depth gives it, and runs up to the loop test (lines 69-103).
CalculateMinDepth ==
    /\ frame.pc = "idle"
    /\ LET slide_mass  == 1
           intact_soil == heap[1].underlying_layer
           loads == Loads(heap, pile.width, slide_mass, intact_soil)
           p     == [pile EXCEPT !.sum_T = loads.sum_T,
                                 !.z_bar = loads.z_bar,
                                 !.sigma_avg = loads.sigma_avg,
                                 !.sigma_L_ds = loads.sigma_L_ds]
           min_d == 50 * heap[intact_soil].layer_depth
           b     == Balance(p, heap[intact_soil], min_d)
       IN  /\ pile' = p
           /\ frame' = [ pc          |-> "loop",
                         slide_mass  |-> slide_mass,
                         intact_soil |-> intact_soil,
                         bearing_layer_depth |-> loads.bearing_layer_depth,
                         min_d       |-> min_d,
                         F1L1        |-> b.F1L1,
                         F2L2        |-> b.F2L2,
                         visited     |-> {},
                         calls       |-> loads.calls ]
    /\ UNCHANGED <<heap, spi, outcome, given, last>>

\* One pass of the loop body (lines 106-115), while the trial depth stays
\* within MaxMinD hundredths of a foot.  visited keeps the trial depths at
\* which the body has run.
LoopBody ==
    /\ frame.pc = "loop"
    /\ OutOfTolerance(frame.F1L1, frame.F2L2)
    /\ frame.min_d \in 0 .. MaxMinD
    /\ LET b == Balance(pile, heap[frame.intact_soil], frame.min_d)
       IN  frame' = [frame EXCEPT
                       !.F1L1 = b.F1L1,
                       !.F2L2 = b.F2L2,
                       !.min_d = IF b.F2L2 > b.F1L1 THEN @ - 1 ELSE @ + 1,
                       !.visited = @ \cup {frame.min_d}]
    /\ UNCHANGED <<heap, spi, outcome, given, last, pile>>

\* The loop test fails and the method ends (lines 117-122): the results are
\* stored, in thousandths of a foot, and when the pile goes below the bearing
\* layer the method calls calculate_min_depth by its bare name, which is
\* bound neither locally nor in the module.
LoopExit ==
    /\ frame.pc = "loop"
    /\ ~OutOfTolerance(frame.F1L1, frame.F2L2)
    /\ pile' = [pile EXCEPT
                  !.pile_depth = 10 * frame.min_d,
                  !.depth_SF = 13 * frame.min_d,
                  !.embedment = 13 * frame.min_d
                                  + 500 * heap[frame.intact_soil].layer_depth]
    /\ outcome' =
         IF /\ BelowBearingLayer(frame.min_d, frame.bearing_layer_depth)
            /\ "calculate_min_depth" \notin (MinDepthLocals \cup PinModuleGlobals)
         THEN Raised("NameError")
         ELSE Returned(None)
    /\ frame' = [frame EXCEPT !.pc = "done"]
    /\ UNCHANGED <<heap, spi, given, last>>

PinNext ==
    \/ CalculateMinDepth
    \/ LoopBody
    \/ LoopExit

PinSpec == PinInit /\ [][PinNext]_vars

\* ------------------------------------------------------------ properties
\* The layers reached from layer n through underlying_layer, at most fuel of them.
RECURSIVE ChainFrom(_, _, _)
ChainFrom(h, n, fuel) ==
    IF n = None \/ fuel = 0
    THEN << >>
    ELSE << n >> \o ChainFrom(h, h[n].underlying_layer, fuel - 1)

\* The profile: the layers from the head down.
Chain(h) == ChainFrom(h, 1, Len(h) + 1)

\* The deepest layer of the profile and its top depth.
TailLayer(h) == Chain(h)[Len(Chain(h))]
TailDepth(h) == h[TailLayer(h)].layer_depth

\* The last call was insert, and its depth was (not) below the tail.
InsertedInOrder ==
    last.op = "insert" /\ last.layer_depth > TailDepth(last.pre)
InsertedOutOfOrder ==
    last.op = "insert" /\ last.layer_depth <= TailDepth(last.pre)

\* C1: an insert at a depth less than or equal to the tail's top depth fails
\* with an OrderingError and leaves the profile unchanged.
C1_OutOfOrderInsertRaises ==
    InsertedOutOfOrder =>
        /\ outcome.raised = "OrderingError"
        /\ heap = last.pre

\* C2: an insert at a depth greater than the tail's top depth appends exactly
\* one layer as the new tail, with unresolved thickness and no underlying
\* layer, sets the previous tail's thickness to the new depth minus the previous
\* tail's top depth, and changes nothing else.
C2_InOrderInsertAppends ==
    InsertedInOrder =>
        LET pre == last.pre
            old == TailLayer(pre)
            new == Len(pre) + 1
        IN  /\ Len(heap) = Len(pre) + 1
            /\ TailLayer(heap) = new
            /\ Chain(heap) = Chain(pre) \o << new >>
            /\ heap[new].layer_depth = last.layer_depth
            /\ heap[new].layer_thickness = None
            /\ heap[new].underlying_layer = None
            /\ heap[old] =
                 [pre[old] EXCEPT
                    !.underlying_layer = new,
                    !.layer_thickness = last.layer_depth - pre[old].layer_depth]
            /\ \A i \in 1 .. Len(pre) : i # old => heap[i] = pre[i]
            /\ outcome.raised = "None"

\* C2's case: an in-order insert into a profile that already had two layers.
C2_Witness ==
    /\ InsertedInOrder
    /\ Len(last.pre) >= 2
    /\ Len(heap) = Len(last.pre) + 1

C4_HazardIsFlagOrOrganic ==
    \A n \in 1 .. Len(heap) :
        heap[n].hazard = (given[n].hazard \/ given[n].uscs \in Organic)

\* The last call was the hazard scan of the profile.
Scanned == last.op = "_check_hazard"

\* The hazard attribute of each layer of the profile, surface first.
Hazards(h) == [ i \in 1 .. Len(Chain(h)) |-> h[Chain(h)[i]].hazard ]

\* C5: on a profile with a non-hazard layer below its deepest hazard layer the
\* scan returns the index of a layer of the profile that is not a hazard; for
\* the two-layer profile (OL, not a hazard) it returns 1, not 0.
C5_ScanSkipsHazards ==
    LET hz == Hazards(heap)
    IN  (Scanned /\ ~hz[Len(hz)]) =>
            /\ outcome.raised = "None"
            /\ outcome.ret \in 0 .. Len(hz) - 1
            /\ ~hz[outcome.ret + 1]
            /\ (Len(hz) = 2 /\ heap[1].uscs = "OL") => outcome.ret = 1

\* C6: on a profile without hazard layers the scan returns index 0 and prints
\* no warning.
C6_ScanOfCleanProfile ==
    LET hz == Hazards(heap)
    IN  (Scanned /\ \A i \in 1 .. Len(hz) : ~hz[i]) =>
            /\ outcome.raised = "None"
            /\ outcome.ret = 0
            /\ outcome.printed = {}

\* C7: on a profile all of whose layers are hazards the scan returns -1 and
\* prints the hazard warning.
C7_ScanOfHazardProfile ==
    LET hz == Hazards(heap)
    IN  (Scanned /\ \A i \in 1 .. Len(hz) : hz[i]) =>
            /\ outcome.raised = "None"
            /\ outcome.ret = 0 - 1
            /\ "HAZARD WARNING" \in outcome.printed

\* The last call was the bearing-depth search, started at layer last.soil.
Searched == last.op = "_calculate_bearing_capacity"

\* The grid depths of a layer (none while its thickness is unresolved) and
\* whether the capacity computed with the layer's own properties exceeds the
\* required capacity there.
GridDepths(layer) ==
    IF layer.layer_thickness = None
    THEN {}
    ELSE { DepthGrid(layer)[i] : i \in DOMAIN DepthGrid(layer) }
ExceedsAt(layer, k) ==
    Exceeds(last.plate_area, NqOf(layer.phi), layer, k,
            last.prespi.required_capacity, last.safety_factor)

\* C8: a reported bearing depth is a grid depth of the reported stratum, and
\* the capacity computed there with the stratum's properties is not less than
\* the required capacity.  (No reachable state reports a bearing depth: every
\* search raises at its first statement.)
C8_ReportedDepthSuffices ==
    (Searched /\ spi.allowable_bearing_depth # None) =>
        LET layer == last.pre[spi.allowable_bearing_strata]
        IN  /\ spi.allowable_bearing_depth \in GridDepths(layer)
            /\ ~Below(last.plate_area, NqOf(layer.phi), layer,
                      spi.allowable_bearing_depth,
                      spi.required_capacity, last.safety_factor)

\* A search has reported a bearing depth.
C8_Reported == Searched /\ spi.allowable_bearing_depth # None

\* C9: when the capacity exceeds the required capacity at every grid depth of
\* the layer searched, the search reports the layer's top depth as bearing
\* depth and the layer as bearing stratum.
C9_AllExceedReportsTop ==
    LET layer == last.pre[last.soil]
    IN  ( /\ Searched
          /\ last.plate_area # None
          /\ GridDepths(layer) # {}
          /\ \A k \in GridDepths(layer) : ExceedsAt(layer, k) ) =>
            /\ outcome.raised = "None"
            /\ spi.allowable_bearing_depth = layer.layer_depth
            /\ spi.allowable_bearing_strata = last.soil

\* C10: when the capacity exceeds the required capacity at no grid depth of the
\* layer searched, the search goes on in the underlying layer with the same
\* arguments; in the deepest layer it ends with a printed warning, raises
\* nothing and reports no bearing depth or stratum.
C10_NoneExceedDescendsOrWarns ==
    LET layer == last.pre[last.soil]
    IN  ( /\ Searched
          /\ last.plate_area # None
          /\ \A k \in GridDepths(layer) : ~ExceedsAt(layer, k) ) =>
            IF layer.underlying_layer # None
            THEN LET r == calculate_bearing_capacity(
                              last.pre, last.prespi, last.plate_area,
                              layer.underlying_layer, last.safety_factor)
                 IN  spi = r.spi /\ outcome = r.outcome
            ELSE /\ outcome.raised = "None"
                 /\ "WARNING" \in outcome.printed
                 /\ spi.allowable_bearing_depth = None
                 /\ spi.allowable_bearing_strata = None

\* The grid depths of the layer searched from which on every grid depth of the
\* layer exceeds the required capacity.
MonotonicTail(layer) ==
    { d \in GridDepths(layer) :
        \A k \in GridDepths(layer) : k >= d => ExceedsAt(layer, k) }

\* C11: when the capacity exceeds the required capacity at some but not all
\* grid depths of the layer searched, the search reports as bearing depth the
\* shallowest grid depth from which on every grid depth of the layer exceeds
\* the required capacity (a depth, not an index), and the layer as stratum.
C11_PartialReportsMonotonicTail ==
    LET layer == last.pre[last.soil]
    IN  ( /\ Searched
          /\ last.plate_area # None
          /\ MonotonicTail(layer) # {}
          /\ \E k \in GridDepths(layer) : ~ExceedsAt(layer, k) ) =>
            /\ outcome.raised = "None"
            /\ spi.allowable_bearing_depth \in MonotonicTail(layer)
            /\ \A d \in MonotonicTail(layer) : spi.allowable_bearing_depth <= d
            /\ spi.allowable_bearing_strata = last.soil

\* The last call was soil_axial_capacity on the profile.
SearchedProfile == last.op = "soil_axial_capacity"

\* C12: on a profile all of whose layers are hazards (the scan's sentinel -1)
\* soil_axial_capacity reports the failure and stops: it raises nothing,
\* computes no capacity (no layer's Nq is set) and leaves no bearing depth or
\* stratum reported.
C12_NoSuitableLayerStops ==
    LET hz == Hazards(last.pre)
    IN  (SearchedProfile /\ \A i \in 1 .. Len(hz) : hz[i]) =>
            /\ outcome.raised = "None"
            /\ heap = last.pre
            /\ spi.allowable_bearing_depth = None
            /\ spi.allowable_bearing_strata = None

\* C13: a search for a pier whose plate_area is zero or unset fails with a
\* ConfigurationError and reports no bearing depth.
C13_NoPlateAreaIsConfigurationError ==
    ( /\ last.op \in {"_calculate_bearing_capacity", "soil_axial_capacity"}
      /\ last.plate_area \in {None, 0} ) =>
        /\ outcome.raised = "ConfigurationError"
        /\ spi.allowable_bearing_depth = None

\* C15: the hazard scan reads the hazard attribute of every layer of the
\* profile once, from the surface down to the deepest layer.
C15_ScanVisitsEveryLayer ==
    Scanned => check_hazard_visits(last.pre, last.soil) = Chain(last.pre)

\* C14: the embedment search terminates on every input.  Each pass of the
\* loop body is determined by the trial depth alone, so a search that is
\* about to run the body at a trial depth where it has run before runs for
\* ever: no search does.
C14_NoTrialDepthTwice ==
    (frame.pc = "loop" /\ OutOfTolerance(frame.F1L1, frame.F2L2)) =>
        frame.min_d \notin frame.visited

\* C16: when the converged depth exceeds the thickness of the intact layer
\* and that layer has an underlying layer, the solve has been repeated with
\* the underlying layer as intact soil; otherwise the solve ends normally with
\* the results of the intact layer given: pile_depth, depth_SF = 1.3 *
\* pile_depth and embedment = depth_SF + the intact layer's top depth.
C16_DeeperLayerWhenTooDeep ==
    frame.pc = "done" =>
        LET first  == heap[1].underlying_layer
            intact == heap[first]
        IN  IF /\ intact.underlying_layer # None
               /\ pile.pile_depth > 500 * intact.layer_thickness
            THEN frame.intact_soil = intact.underlying_layer
            ELSE /\ frame.intact_soil = first
                 /\ outcome.raised = "None"
                 /\ pile.pile_depth = 10 * frame.min_d
                 /\ pile.depth_SF = (13 * pile.pile_depth) \div 10
                 /\ pile.embedment = pile.depth_SF + 500 * intact.layer_depth

\* C17: a friction angle of 40 degrees selects the band above 37.5 degrees,
\* and every coefficient call of calculate_min_depth passes as phi the
\* friction angle of the layer it evaluates.
C17_CoefficientsByFrictionAngle ==
    /\ Band(2 * 40) = 75
    /\ frame.pc # "idle" =>
          \A i \in 1 .. Len(frame.calls) :
              frame.calls[i].phi = 2 * heap[frame.calls[i].layer].phi

=============================================================================
